---- MODULE Spec2Model ----
(***************************************************************************)
(* A model of medium2dev.py: the Medium -> DEV.to converter.               *)
(*                                                                         *)
(* Spec         the run of main(): argument check, __init__, fetch_article,*)
(*              extract_content (content root), download_images,           *)
(*              convert_to_markdown (image references), the file write and *)
(*              publish_to_devto.                                          *)
(* SpecExtract  the node selection loop of extract_content on a tree.      *)
(* SpecCleanup  the post-render textual cleanup of convert_to_markdown.    *)
(* SpecTags     the tag derivation of generate_frontmatter.                *)
(***************************************************************************)
EXTENDS Integers, Sequences, FiniteSets, TLC

VARIABLES
    \* ---- the run of main() ----
    pc,            \* position of the run
    args,          \* parsed command line plus the DEVTO_API_KEY environment variable
    dirs,          \* directories that exist (absolute paths)
    files,         \* files written (absolute paths)
    calls,         \* HTTP calls issued so far, in order, each with its outcome
    html,          \* html_content: the response.text handed to extract_content
    images,        \* the img nodes of the content, in document order
    idx,           \* enumerate index i of download_images (0-based)
    downloaded_count,
    md_refs,       \* image references of the rendered markdown
    exit_status,   \* -1 while running
    publish_result,\* what publish_to_devto returned: "none" before it ran
    \* ---- extract_content's node selection ----
    tree,          \* the element nodes below the content root, in document order
    title,         \* the extracted title
    parent,        \* parent of each node: 0 the content root, Len(tree)+1 content_div
    ei,            \* position of the loop over content_elements
    skipped,       \* nodes a heuristic discarded
    word_count,
    \* ---- textual cleanup ----
    markdown,      \* the text being cleaned
    first_pass,    \* the text after the first application
    passes,
    body,          \* the text as rendered, before any cleanup
    \* ---- generate_frontmatter ----
    url_path,      \* urlparse(self.url).path
    tags

vars == <<pc, args, dirs, files, calls, html, images, idx, downloaded_count,
          md_refs, exit_status, publish_result, tree, title, parent, ei, skipped, word_count,
          markdown, first_pass, passes, body, url_path, tags>>

mainVars == <<pc, args, dirs, files, calls, html, images, idx, downloaded_count,
              md_refs, exit_status, publish_result>>
extractVars == <<tree, title, parent, ei, skipped, word_count>>
cleanupVars == <<markdown, first_pass, passes, body>>
tagVars == <<url_path, tags>>

(***************************************************************************)
(* Bounds                                                                  *)
(***************************************************************************)
MaxImages == 2
MaxNodes == 3
MaxPathLen == 5
MaxLen == 6

(***************************************************************************)
(* Generic helpers                                                         *)
(***************************************************************************)
Contains(s, t) == \E k \in 1..Len(s) : s[k] = t

SeqsUpTo(S, n) == UNION {[1..k -> S] : k \in 0..n}

(***************************************************************************)
(* Paths and addresses are sequences of string tokens; the components of a *)
(* path are separated by "/" tokens and an absolute path starts with one.  *)
(* <<>> stands for None (option not given).                                *)
(***************************************************************************)
Cwd == <<"/", "cwd">>

\* os.path.join(a, b)
PathJoin(a, b) == IF b # <<>> /\ b[1] = "/" THEN b ELSE a \o <<"/">> \o b

\* the file the operating system opens for path p
Resolve(p) == IF p # <<>> /\ p[1] = "/" THEN p ELSE Cwd \o <<"/">> \o p

\* the directory p and every directory above it
DirPrefixes(p) == {SubSeq(p, 1, k) : k \in {m \in 1..Len(p) :
                       p[m] # "/" /\ (m = Len(p) \/ p[m+1] = "/")}}

(***************************************************************************)
(* Addresses: a sequence of tokens.                                        *)
(***************************************************************************)
SelfUrl == <<"https://", "medium.com", "/", "pub", "/", "post">>

NoSrc == <<>>

ImageSources == {
    NoSrc,
    <<"https://", "miro.medium.com", "/", "resize:fill:64:64", "/", "av", ".png">>,
    <<"https://", "miro.medium.com", "/", "resize:fill:88:88", "/", "me", ".png">>,
    <<"https://", "miro.medium.com", "/", "resize:fit:64:64", "/", "abc", ".png">>,
    <<"https://", "miro.medium.com", "/", "resize:fit:800:400", "/", "photo", ".jpg", "?", "q=1">>,
    <<"/", "rel", "/", "pic">> }

Schemes == {"http://", "https://"}
ResizeTokens == {"resize:fill:64:64", "resize:fill:88:88", "resize:fit:64:64",
                 "resize:fit:800:400"}
ExtensionTokens == {".png", ".jpg"}

\* urljoin(self.url, ref) for a reference without a scheme
UrlJoin(base, ref) ==
    IF ref[1] = "/"
    THEN <<base[1], base[2]>> \o ref
    ELSE LET lastSlash == CHOOSE k \in 1..Len(base) :
                              /\ base[k] = "/"
                              /\ \A m \in (k+1)..Len(base) : base[m] # "/"
         IN SubSeq(base, 1, lastSlash) \o ref

\* lines 158-160
ResolveSrc(src) == IF src[1] \in Schemes THEN src ELSE UrlJoin(SelfUrl, src)

\* line 163
IsProfileImage(u) == Contains(u, "resize:fill:64:64") \/ Contains(u, "resize:fill:88:88")

\* re.sub(r'/resize:[^/]+/', '/', u): scan left to right, non-overlapping
RECURSIVE StripResizeFrom(_, _)
StripResizeFrom(u, k) ==
    IF k > Len(u) THEN <<>>
    ELSE IF /\ k + 2 <= Len(u)
            /\ u[k] = "/" /\ u[k+1] \in ResizeTokens /\ u[k+2] = "/"
         THEN <<"/">> \o StripResizeFrom(u, k + 3)
         ELSE <<u[k]>> \o StripResizeFrom(u, k + 1)

\* u.split('?')[0]
BeforeQuery(u) ==
    IF Contains(u, "?")
    THEN SubSeq(u, 1, (CHOOSE k \in 1..Len(u) :
                          u[k] = "?" /\ \A m \in 1..(k-1) : u[m] # "?") - 1)
    ELSE u

\* lines 168-172
FullSizeUrl(u) ==
    IF Contains(u, "miro.medium.com") THEN BeforeQuery(StripResizeFrom(u, 1)) ELSE u

\* os.path.splitext(urlparse(u).path)[1], '.jpg' when empty (lines 175-177)
ImgExtension(u) ==
    LET p == BeforeQuery(u)
    IN IF Len(p) >= 2 /\ p[Len(p)] \in ExtensionTokens /\ p[Len(p) - 1] # "/"
       THEN p[Len(p)] ELSE ".jpg"

\* f"image_{i+1}{img_extension}" (line 179)
ImgFilename(i, u) == <<"image_", ToString(i + 1), ImgExtension(u)>>

(***************************************************************************)
(* HTTP                                                                    *)
(***************************************************************************)
Statuses == {200, 300, 404, 500}

\* an answer of the network: no response at all, or a response with a status
Outcomes == {[err |-> TRUE, status |-> 0]} \cup
            {[err |-> FALSE, status |-> s] : s \in Statuses}

\* session.get without the raise_for_status() that follows it
RaisesOnTransportErrorOnly(o) == o.err

\* response.raise_for_status() raises HTTPError for 4xx and 5xx; a transport
\* error raises a RequestException from session.get itself
RaisesRequestException(o) == o.err \/ (400 <= o.status /\ o.status < 600)

\* the answers to an image request that the model draws
ImageOutcomes == {o \in Outcomes : o.err \/ o.status = 200}

\* a document body, as far as the run reads it
ImageLists == SeqsUpTo(ImageSources, MaxImages)
Pages == {[redirect |-> r, root |-> TRUE, imgs |-> l] : r \in BOOLEAN, l \in ImageLists}
         \cup {[redirect |-> r, root |-> FALSE, imgs |-> <<>>] : r \in BOOLEAN}
NoPage == [redirect |-> FALSE, root |-> FALSE, imgs |-> <<>>]
\* the first response: an article page, or a page that only redirects
PrimaryPages == {p \in Pages : ~p.redirect \/ ~p.root}

\* lines 62-65: the body holds window.location.href = "..."
HasJsRedirect(page) == page.redirect

Call(kind, target, o) == [kind |-> kind, target |-> target, outcome |-> o]

(***************************************************************************)
(* main() and Medium2Dev.__init__                                          *)
(***************************************************************************)
Keys == {"None", "key"}
Truthy(k) == k \notin {"None", ""}

\* line 412: args.api_key or os.environ.get('DEVTO_API_KEY')
ApiKey(a) == IF Truthy(a.api_key) THEN a.api_key ELSE a.env_key

\* line 29
OutputDir(a) == IF a.output_dir # <<>> THEN a.output_dir ELSE Cwd
\* line 30
ImageDir(a) == IF a.image_dir # <<>> THEN a.image_dir
               ELSE PathJoin(OutputDir(a), <<"images">>)

ArgSets == {a \in [publish : BOOLEAN, api_key : Keys, env_key : Keys,
                    output_dir : {<<>>, <<"out">>},
                    image_dir : {<<>>, <<"pics">>}] :
                a.api_key = "None" \/ a.env_key = "None"}

MainInit ==
    /\ pc = "main"
    /\ args \in ArgSets
    /\ dirs \in {{Cwd}, {Cwd, Resolve(OutputDir(args))}}
    /\ files = {}
    /\ calls = <<>>
    /\ html = NoPage
    /\ images = <<>>
    /\ idx = 0
    /\ downloaded_count = 0
    /\ md_refs = <<>>
    /\ exit_status = -1
    /\ publish_result = "none"

Exit(code) == pc' = "exited" /\ exit_status' = code

\* main without its own check, leaving the key to publish_to_devto
CredentialCheckLeftToPublish(a) == FALSE

\* line 415
CredentialMissing(a) == a.publish /\ ~Truthy(ApiKey(a))

\* lines 415-417
MainConfigError ==
    /\ pc = "main"
    /\ CredentialMissing(args)
    /\ Exit(1)
    /\ UNCHANGED <<args, dirs, files, calls, html, images, idx, downloaded_count, md_refs,
                   publish_result>>
    /\ UNCHANGED <<extractVars, cleanupVars, tagVars>>

\* line 419 and __init__ (lines 26-40): os.makedirs(self.image_dir)
MainConstruct ==
    /\ pc = "main"
    /\ ~CredentialMissing(args)
    /\ dirs' = dirs \cup DirPrefixes(Resolve(ImageDir(args)))
    /\ pc' = "fetch"
    /\ UNCHANGED <<args, files, calls, html, images, idx, downloaded_count, md_refs,
                   exit_status, publish_result>>
    /\ UNCHANGED <<extractVars, cleanupVars, tagVars>>

(***************************************************************************)
(* fetch_article (lines 42-74)                                             *)
(***************************************************************************)
\* lines 58-59, 62-65, 71-74: the primary request
FetchPrimary ==
    /\ pc = "fetch"
    /\ \E o \in Outcomes :
         /\ calls' = Append(calls, Call("document", 0, o))
         /\ IF RaisesRequestException(o)
            THEN Exit(1) /\ html' = html
            ELSE \E page \in PrimaryPages :
                   /\ html' = page
                   /\ pc' = IF HasJsRedirect(page) THEN "redirect" ELSE "extract"
                   /\ exit_status' = exit_status
    /\ UNCHANGED <<args, dirs, files, images, idx, downloaded_count, md_refs,
                   publish_result>>
    /\ UNCHANGED <<extractVars, cleanupVars, tagVars>>

\* lines 66-69, 71-74: the one follow-up request to the redirect target
FetchRedirect ==
    /\ pc = "redirect"
    /\ \E o \in Outcomes :
         /\ calls' = Append(calls, Call("redirect", 0, o))
         /\ IF RaisesRequestException(o)
            THEN Exit(1) /\ html' = html
            ELSE \E page \in Pages :
                   /\ html' = page
                   /\ pc' = "extract"
                   /\ exit_status' = exit_status
    /\ UNCHANGED <<args, dirs, files, images, idx, downloaded_count, md_refs,
                   publish_result>>
    /\ UNCHANGED <<extractVars, cleanupVars, tagVars>>

(***************************************************************************)
(* extract_content: the content root (lines 88-100) and the img nodes the  *)
(* content holds.  The node selection itself is SpecExtract.               *)
(***************************************************************************)
ImgNode(src) == [src |-> src, orig |-> src, present |-> TRUE]

ExtractNoRoot ==
    /\ pc = "extract"
    /\ ~html.root
    /\ Exit(1)
    /\ UNCHANGED <<args, dirs, files, calls, html, images, idx, downloaded_count, md_refs,
                   publish_result>>
    /\ UNCHANGED <<extractVars, cleanupVars, tagVars>>

ExtractContent ==
    /\ pc = "extract"
    /\ html.root
    /\ images' = [k \in 1..Len(html.imgs) |-> ImgNode(html.imgs[k])]
    /\ idx' = 0
    /\ downloaded_count' = 0
    /\ html' = [redirect |-> FALSE, root |-> TRUE, imgs |-> <<>>]
    /\ pc' = "images"
    /\ UNCHANGED <<args, dirs, files, calls, md_refs, exit_status, publish_result>>
    /\ UNCHANGED <<extractVars, cleanupVars, tagVars>>

(***************************************************************************)
(* download_images (lines 148-205), one action per turn of the loop        *)
(***************************************************************************)
\* the address requested for the image at 0-based position i
RequestUrl(img) == FullSizeUrl(ResolveSrc(img.src))

\* line 180
ImgPath(a, i, img) == PathJoin(ImageDir(a), ImgFilename(i, RequestUrl(img)))
\* line 197
ImgRelativePath(i, img) == PathJoin(<<"images">>, ImgFilename(i, RequestUrl(img)))

InImageLoop == pc = "images" /\ idx < Len(images)

\* lines 154-155
ImageWithoutSrc ==
    /\ InImageLoop
    /\ images[idx + 1].src = NoSrc
    /\ idx' = idx + 1
    /\ UNCHANGED <<pc, args, dirs, files, calls, html, images, downloaded_count, md_refs,
                   exit_status, publish_result>>
    /\ UNCHANGED <<extractVars, cleanupVars, tagVars>>

\* lines 163-165: img.decompose()
ImageDiscard ==
    /\ InImageLoop
    /\ images[idx + 1].src # NoSrc
    /\ IsProfileImage(ResolveSrc(images[idx + 1].src))
    /\ images' = [images EXCEPT ![idx + 1].present = FALSE]
    /\ idx' = idx + 1
    /\ UNCHANGED <<pc, args, dirs, files, calls, html, downloaded_count, md_refs,
                   exit_status, publish_result>>
    /\ UNCHANGED <<extractVars, cleanupVars, tagVars>>

\* a failure handler that drops the node it could not download
OnDownloadFailureRemovesNode ==
    /\ images' = [images EXCEPT ![idx + 1].present = FALSE]
    /\ UNCHANGED <<files, downloaded_count>>

\* lines 201-202: the warning is logged and nothing else changes
OnDownloadFailure == UNCHANGED <<files, images, downloaded_count>>

\* lines 167-202
ImageDownload ==
    /\ InImageLoop
    /\ images[idx + 1].src # NoSrc
    /\ ~IsProfileImage(ResolveSrc(images[idx + 1].src))
    /\ \E o \in ImageOutcomes :
         /\ calls' = Append(calls, Call("image", idx + 1, o))
         /\ IF RaisesRequestException(o)
            THEN OnDownloadFailure
            ELSE /\ files' = files \cup {Resolve(ImgPath(args, idx, images[idx + 1]))}
                 /\ images' = [images EXCEPT
                                 ![idx + 1].src = ImgRelativePath(idx, images[idx + 1])]
                 /\ downloaded_count' = downloaded_count + 1
    /\ dirs' = dirs \cup DirPrefixes(Resolve(ImageDir(args)))
    /\ idx' = idx + 1
    /\ UNCHANGED <<pc, args, html, md_refs, exit_status, publish_result>>
    /\ UNCHANGED <<extractVars, cleanupVars, tagVars>>

\* lines 204-205
ImagesReturn ==
    /\ pc = "images"
    /\ idx = Len(images)
    /\ pc' = "render"
    /\ UNCHANGED <<args, dirs, files, calls, html, images, idx, downloaded_count, md_refs,
                   exit_status, publish_result>>
    /\ UNCHANGED <<extractVars, cleanupVars, tagVars>>

(***************************************************************************)
(* convert_to_markdown: the image references (lines 234-254)               *)
(***************************************************************************)
\* h2t.handle renders an img that has a src as ![alt](src); repl (lines
\* 248-252) gives a reference whose path starts with images/ the alt Image
ImageRef(k, img) ==
    [node |-> k,
     alt  |-> IF Len(img.src) >= 2 /\ img.src[1] = "images" /\ img.src[2] = "/"
              THEN "Image" ELSE "",
     path |-> img.src]

RECURSIVE RenderRefs(_, _)
RenderRefs(imgs, k) ==
    IF k > Len(imgs) THEN <<>>
    ELSE (IF imgs[k].present /\ imgs[k].src # NoSrc
          THEN <<ImageRef(k, imgs[k])>> ELSE <<>>) \o RenderRefs(imgs, k + 1)

ConvertToMarkdown ==
    /\ pc = "render"
    /\ md_refs' = RenderRefs(images, 1)
    /\ pc' = "write"
    /\ UNCHANGED <<args, dirs, files, calls, html, images, idx, downloaded_count,
                   exit_status, publish_result>>
    /\ UNCHANGED <<extractVars, cleanupVars, tagVars>>

(***************************************************************************)
(* convert: the output file (lines 348-359)                                *)
(***************************************************************************)
\* lines 350-352: slug of SelfUrl
OutputPath(a) == PathJoin(OutputDir(a), <<"post", ".md">>)

\* line 355; open() raises FileNotFoundError when the directory is missing,
\* nothing catches it and the interpreter exits with status 1
WriteOutput ==
    /\ pc = "write"
    /\ IF Resolve(OutputDir(args)) \in dirs
       THEN /\ files' = files \cup {Resolve(OutputPath(args))}
            /\ IF args.publish
               THEN pc' = "publish" /\ exit_status' = exit_status
               ELSE Exit(0)
       ELSE Exit(1) /\ files' = files
    /\ UNCHANGED <<args, dirs, calls, html, images, idx, downloaded_count, md_refs,
                   publish_result>>
    /\ UNCHANGED <<extractVars, cleanupVars, tagVars>>

(***************************************************************************)
(* publish_to_devto (lines 361-398) and the end of main (lines 428-437)    *)
(***************************************************************************)
\* lines 389-398: True unless the post or raise_for_status raised
PublishSucceeds(o) == ~RaisesRequestException(o)

\* a main that reports a failed publish through its exit status
ExitCodeFromPublishResult(result) == IF result = "ok" THEN 0 ELSE 1

\* lines 429-437: main prints the result either way and returns
ExitCodeAfterPublish(result) == 0

Publish ==
    /\ pc = "publish"
    /\ IF ~Truthy(ApiKey(args))
       THEN publish_result' = "failed" /\ calls' = calls
       ELSE \E o \in Outcomes :
              /\ calls' = Append(calls, Call("publish", 0, o))
              /\ publish_result' = IF PublishSucceeds(o) THEN "ok" ELSE "failed"
    /\ Exit(ExitCodeAfterPublish(publish_result'))
    /\ UNCHANGED <<args, dirs, files, html, images, idx, downloaded_count, md_refs>>
    /\ UNCHANGED <<extractVars, cleanupVars, tagVars>>

(***************************************************************************)
(* generate_frontmatter: the tags (lines 298-314).  A path is a sequence   *)
(* of tokens: "/" , "-", "@" and words; a tag is the sequence of the       *)
(* tokens it is spelled with.                                              *)
(***************************************************************************)
PathTokens == {"/", "-", "@", "medium", "blog", "x"}
AlnumTokens == {"medium", "blog", "posts", "x"}

\* line 301
DefaultTags == << <<"aws">>, <<"tutorial">>, <<"programming">> >>
\* line 309
ExcludedTags == { <<"medium">>, <<"blog">>, <<"posts">> }

\* path.strip('/')
RECURSIVE StripSlashes(_)
StripSlashes(path) ==
    IF path = <<>> THEN <<>>
    ELSE IF Head(path) = "/" THEN StripSlashes(Tail(path))
    ELSE IF path[Len(path)] = "/" THEN StripSlashes(SubSeq(path, 1, Len(path) - 1))
    ELSE path

\* str.split('/'): the components between the slashes, empty ones included
RECURSIVE SplitSlash(_, _)
SplitSlash(path, current) ==
    IF path = <<>> THEN <<current>>
    ELSE IF Head(path) = "/" THEN <<current>> \o SplitSlash(Tail(path), <<>>)
    ELSE SplitSlash(Tail(path), Append(current, Head(path)))

\* line 305
PathComponents(path) == SplitSlash(StripSlashes(path), <<>>)

\* str.replace('-', '')
RemoveHyphens(w) == SelectSeq(w, LAMBDA c : c # "-")
\* re.sub(r'[^a-zA-Z0-9]', '', w)
KeepAlnum(w) == SelectSeq(w, LAMBDA c : c \in AlnumTokens)

\* line 309: the test that guards the clean-up of line 311
MayBeTag(w) == w # <<>> /\ w \notin ExcludedTags

\* lines 301-313
TagList(path) ==
    LET comps == PathComponents(path)
        potential == RemoveHyphens(comps[1])
        cleaned == KeepAlnum(potential)
    IN IF Len(comps) > 1 /\ MayBeTag(potential) /\ cleaned # <<>>
       THEN <<cleaned>> \o DefaultTags
       ELSE DefaultTags

TagsInit ==
    /\ url_path \in {q \in SeqsUpTo(PathTokens, MaxPathLen) : q = <<>> \/ q[1] = "/"}
    /\ tags = <<>>

GenerateFrontmatter ==
    /\ tags = <<>>
    /\ tags' = TagList(url_path)
    /\ UNCHANGED url_path
    /\ UNCHANGED <<mainVars, extractVars, cleanupVars>>

(***************************************************************************)
(* convert_to_markdown: the textual cleanup (lines 243-296).  A text is a  *)
(* sequence of characters.  A position is the index of the next character  *)
(* to match, 1..Len+1; 0 says that the match has failed.                   *)
(***************************************************************************)
IsSpace(c) == c \in {" ", "\t", "\n", "\r", "\f"}
IsDigit(c) == c \in {"0", "1", "2", "3", "4", "5", "6", "7", "8", "9"}

MinOf(S) == IF S = {} THEN 0 ELSE CHOOSE x \in S : \A y \in S : x <= y
MaxOf(S) == IF S = {} THEN 0 ELSE CHOOSE x \in S : \A y \in S : x >= y

\* the literal lit stands at position i of s
LitAt(s, i, lit) ==
    /\ i >= 1 /\ i + Len(lit) - 1 <= Len(s)
    /\ \A k \in 1..Len(lit) : s[i + k - 1] = lit[k]

\* a literal
Lit(s, i, lit) == IF i # 0 /\ LitAt(s, i, lit) THEN i + Len(lit) ELSE 0

\* an optional character: c?
Opt(s, i, c) == IF i # 0 /\ i <= Len(s) /\ s[i] = c THEN i + 1 ELSE i

RECURSIVE SkipSpaces(_, _)
SkipSpaces(s, i) == IF i <= Len(s) /\ IsSpace(s[i]) THEN SkipSpaces(s, i + 1) ELSE i
RECURSIVE SkipDigits(_, _)
SkipDigits(s, i) == IF i <= Len(s) /\ IsDigit(s[i]) THEN SkipDigits(s, i + 1) ELSE i
RECURSIVE SkipChar(_, _, _)
SkipChar(s, i, c) == IF i <= Len(s) /\ s[i] = c THEN SkipChar(s, i + 1, c) ELSE i

\* \s* in front of a character that is no white space
Spaces(s, i) == IF i = 0 THEN 0 ELSE SkipSpaces(s, i)
\* \d+ in front of a character that is no digit
Digits1(s, i) == IF i = 0 \/ SkipDigits(s, i) = i THEN 0 ELSE SkipDigits(s, i)

\* \s*\n+ in front of a character that is no white space: the white space
\* must end with a newline
SpacesNewlinesThen(s, i) ==
    IF i = 0 THEN 0
    ELSE LET k == SkipSpaces(s, i)
         IN IF k > i /\ s[k - 1] = "\n" THEN k ELSE 0

\* \s*\n+ or \s*\n at the end of a pattern: \s* gives back as little as it
\* must, so the match ends behind the last newline of the white space
SpacesNewlinesEnd(s, i) ==
    IF i = 0 THEN 0
    ELSE LET k == SkipSpaces(s, i)
             nl == {m \in i..(k - 1) : s[m] = "\n"}
         IN IF nl = {} THEN 0 ELSE MaxOf(nl) + 1

\* .*? in front of lit: the positions behind an occurrence of lit from i on
\* with no newline before it, the nearest first
LazyThen(s, i, lit) ==
    IF i = 0 THEN {}
    ELSE {p + Len(lit) : p \in {q \in i..Len(s) :
              LitAt(s, q, lit) /\ \A k \in i..(q - 1) : s[k] # "\n"}}

\* re.sub(pattern, repl, s): end[i] is the position behind the match that
\* starts at i (0: none), repl[i] what replaces s[i..end[i]-1]
Sub(end, repl, s) ==
    LET out[i \in 1..(Len(s) + 1)] ==
            IF i > Len(s) THEN <<>>
            ELSE IF end[i] # 0
                 THEN repl[i] \o out[end[i]]
                 ELSE <<s[i]>> \o out[i + 1]
    IN out[1]

\* re.sub(r'^...', '', s): a pattern that starts with ^ matches at the start only
SubAtStart(e, s) == IF e # 0 THEN SubSeq(s, e, Len(s)) ELSE s

\* the backquote character, which a string of this notation cannot hold
Backquote == "bq"

\* a. line 245: r'```\n\s*```' -> ''
EmptyFenceEnd(s, i) ==
    Lit(s, Spaces(s, Lit(s, Lit(s, i, <<Backquote, Backquote, Backquote>>), <<"\n">>)), <<Backquote, Backquote, Backquote>>)
StepA(s) ==
    Sub([i \in 1..Len(s) |-> EmptyFenceEnd(s, i)], [i \in 1..Len(s) |-> <<>>], s)

\* b. lines 248-254: r'!\[.*?\]\((.*?)\)' and repl
ImagePathStart(s, i) == MinOf(LazyThen(s, Lit(s, i, <<"!", "[">>), <<"]", "(">>))
ImageRefEnd(s, i) == MinOf(LazyThen(s, ImagePathStart(s, i), <<")">>))
ImageRepl(s, i) ==
    LET e == ImageRefEnd(s, i)
        path == SubSeq(s, ImagePathStart(s, i), e - 2)
    IN IF e = 0 THEN <<>>
       ELSE IF LitAt(path, 1, <<"i", "m", "a", "g", "e", "s", "/">>)
       THEN <<"!", "[", "I", "m", "a", "g", "e", "]", "(">> \o path \o <<")">>
       ELSE SubSeq(s, i, e - 1)
StepB(s) ==
    Sub([i \in 1..Len(s) |-> ImageRefEnd(s, i)], [i \in 1..Len(s) |-> ImageRepl(s, i)], s)

\* c. line 257: r'(?<!\n)#{1,6} ' -> r'\n\g<0>'
HeadingEnd(s, i) ==
    LET h == SkipChar(s, i, "#")
    IN IF /\ (i = 1 \/ s[i - 1] # "\n")
          /\ h - i >= 1 /\ h - i <= 6
          /\ h <= Len(s) /\ s[h] = " "
       THEN h + 1 ELSE 0
NewlineBefore(s, i) ==
    IF HeadingEnd(s, i) = 0 THEN <<>> ELSE <<"\n">> \o SubSeq(s, i, HeadingEnd(s, i) - 1)
StepC(s) ==
    Sub([i \in 1..Len(s) |-> HeadingEnd(s, i)], [i \in 1..Len(s) |-> NewlineBefore(s, i)], s)

\* .*?\)\s*\n from a on: the nearest closing parenthesis that white space
\* with a newline follows
ClosedLineEnd(s, a) ==
    LET ok == {c \in LazyThen(s, a, <<")">>) : SpacesNewlinesEnd(s, c) # 0}
    IN IF ok = {} THEN 0 ELSE SpacesNewlinesEnd(s, MinOf(ok))
\* the first of the positions starts, in order, from which the line closes
LinkLineEnd(s, starts) ==
    LET ok == {a \in starts : ClosedLineEnd(s, a) # 0}
    IN IF ok = {} THEN 0 ELSE ClosedLineEnd(s, MinOf(ok))

\* d. line 260: r'\n\s*\[.*?\]\(https?://medium\.com/.*?\)\s*\n' -> '\n\n'
MediumLinkLineEnd(s, i) ==
    LET open == Lit(s, Spaces(s, Lit(s, i, <<"\n">>)), <<"[">>)
    IN LinkLineEnd(s, LazyThen(s, open, <<"]", "(", "h", "t", "t", "p", ":", "/", "/", "m", "e", "d", "i", "u", "m", ".", "c", "o", "m", "/">>)
                          \cup LazyThen(s, open, <<"]", "(", "h", "t", "t", "p", "s", ":", "/", "/", "m", "e", "d", "i", "u", "m", ".", "c", "o", "m", "/">>))
StepD(s) ==
    Sub([i \in 1..Len(s) |-> MediumLinkLineEnd(s, i)],
        [i \in 1..Len(s) |-> <<"\n", "\n">>], s)

\* e. lines 263-264: r'\d+\s*claps?' and r'Follow\s*\d+\s*min read' -> ''
ClapsEnd(s, i) == Opt(s, Lit(s, Spaces(s, Digits1(s, i)), <<"c", "l", "a", "p">>), "s")
FollowEnd(s, i) ==
    Lit(s, Spaces(s, Digits1(s, Spaces(s, Lit(s, i, <<"F", "o", "l", "l", "o", "w">>)))), <<"m", "i", "n", " ", "r", "e", "a", "d">>)
StepE1(s) == Sub([i \in 1..Len(s) |-> ClapsEnd(s, i)], [i \in 1..Len(s) |-> <<>>], s)
StepE2(s) == Sub([i \in 1..Len(s) |-> FollowEnd(s, i)], [i \in 1..Len(s) |-> <<>>], s)

\* f. lines 267-270, each anchored at the start of the text
LeadSepNumber(s) == Digits1(s, SpacesNewlinesThen(s, Lit(s, Spaces(s, 1), <<"-", "-">>)))
\* r'^\s*--\s*\n+\d+\s*\n+Listen\s*\n+Share\s*\n+'
LeadListenShareEnd(s) ==
    SpacesNewlinesEnd(s, Lit(s, SpacesNewlinesThen(s,
        Lit(s, SpacesNewlinesThen(s, LeadSepNumber(s)), <<"L", "i", "s", "t", "e", "n">>)), <<"S", "h", "a", "r", "e">>))
StepF1(s) == SubAtStart(LeadListenShareEnd(s), s)
\* r'^\s*--\s*\n+\d+\s*\n+'
StepF2(s) == SubAtStart(SpacesNewlinesEnd(s, LeadSepNumber(s)), s)
\* r'^\s*·\s*\n+'
StepF3(s) == SubAtStart(SpacesNewlinesEnd(s, Lit(s, Spaces(s, 1), <<"·">>)), s)
\* r'^\s*\\--\s*\n+'
StepF4(s) == SubAtStart(SpacesNewlinesEnd(s, Lit(s, Spaces(s, 1), <<"\\", "-", "-">>)), s)

\* g. line 273: r'`\[(.*?)\]\((.*?)\)`' -> r'[`\1`](\2)'
CodeLinkUrlStart(s, i) == MinOf(LazyThen(s, Lit(s, i, <<Backquote, "[">>), <<"]", "(">>))
CodeLinkEnd(s, i) == MinOf(LazyThen(s, CodeLinkUrlStart(s, i), <<")", Backquote>>))
CodeLinkRepl(s, i) ==
    IF CodeLinkEnd(s, i) = 0 THEN <<>>
    ELSE <<"[", Backquote>> \o SubSeq(s, i + 2, CodeLinkUrlStart(s, i) - 3) \o <<Backquote, "]", "(">>
         \o SubSeq(s, CodeLinkUrlStart(s, i), CodeLinkEnd(s, i) - 3) \o <<")">>
StepG(s) ==
    Sub([i \in 1..Len(s) |-> CodeLinkEnd(s, i)], [i \in 1..Len(s) |-> CodeLinkRepl(s, i)], s)

\* .*?$ with re.DOTALL and without re.MULTILINE: up to the end of the text,
\* or up to the newline that ends the text
ToEnd(s, i) ==
    IF i = 0 THEN 0
    ELSE IF Len(s) >= i /\ s[Len(s)] = "\n" THEN Len(s) ELSE Len(s) + 1
\* h. lines 276-277
StepH1(s) ==
    Sub([i \in 1..Len(s) |-> ToEnd(s, Lit(s, i, <<"#", " ", "I", "n", " ", "P", "l", "a", "i", "n", " ", "E", "n", "g", "l", "i", "s", "h">>))],
        [i \in 1..Len(s) |-> <<>>], s)
StepH2(s) ==
    Sub([i \in 1..Len(s) |-> ToEnd(s, Lit(s, i, <<"_", "T", "h", "a", "n", "k", " ", "y", "o", "u", " ", "f", "o", "r", " ", "b", "e", "i", "n", "g", " ", "a", " ", "p", "a", "r", "t", " ", "o", "f", " ", "t", "h", "e", "_">>))],
        [i \in 1..Len(s) |-> <<>>], s)

\* i. lines 280-281: r'^\s*\[\]\(https://.*?medium\.com/.*?\)\s*\n+' and the
\* same with [Vivek V]
AuthorLinkEnd(s, opening) ==
    LinkLineEnd(s, LazyThen(s, Lit(s, Spaces(s, 1), opening), <<"m", "e", "d", "i", "u", "m", ".", "c", "o", "m", "/">>))
StepI1(s) == SubAtStart(AuthorLinkEnd(s, <<"[", "]", "(", "h", "t", "t", "p", "s", ":", "/", "/">>), s)
StepI2(s) == SubAtStart(AuthorLinkEnd(s, <<"[", "V", "i", "v", "e", "k", " ", "V", "]", "(", "h", "t", "t", "p", "s", ":", "/", "/">>), s)

\* j. line 284: r'\n{3,}' -> '\n\n'
BlankLinesEnd(s, i) == IF SkipChar(s, i, "\n") - i >= 3 THEN SkipChar(s, i, "\n") ELSE 0
StepJ(s) ==
    Sub([i \in 1..Len(s) |-> BlankLinesEnd(s, i)], [i \in 1..Len(s) |-> <<"\n", "\n">>], s)

\* str.strip()
RECURSIVE Strip(_)
Strip(s) ==
    IF s = <<>> THEN <<>>
    ELSE IF IsSpace(Head(s)) THEN Strip(Tail(s))
    ELSE IF IsSpace(s[Len(s)]) THEN Strip(SubSeq(s, 1, Len(s) - 1))
    ELSE s

\* line 288
IsMarkerLine(line) == Strip(line) \in {<<"·">>, <<"-", "-">>, <<"\\", "-", "-">>}

\* k. lines 287-290: split('\n'), pop the leading marker lines, join
RECURSIVE StepK(_)
StepK(s) ==
    LET nl == MinOf({k \in 1..Len(s) : s[k] = "\n"})
        first == IF nl = 0 THEN s ELSE SubSeq(s, 1, nl - 1)
    IN IF ~IsMarkerLine(first) THEN s
       ELSE IF nl = 0 THEN <<>>
       ELSE StepK(SubSeq(s, nl + 1, Len(s)))

\* l. lines 293-294: r'\n\\--\n' and r'\n--\n' -> '\n\n'
StepL1(s) ==
    Sub([i \in 1..Len(s) |-> Lit(s, i, <<"\n", "\\", "-", "-", "\n">>)], [i \in 1..Len(s) |-> <<"\n", "\n">>], s)
StepL2(s) ==
    Sub([i \in 1..Len(s) |-> Lit(s, i, <<"\n", "-", "-", "\n">>)], [i \in 1..Len(s) |-> <<"\n", "\n">>], s)

\* lines 245-294 in order, each step applied to the value the step before left
Cleanup(s) ==
    CHOOSE cleaned \in
        {StepL2(l1) : l1 \in {StepL1(k) : k \in {StepK(j) : j \in {StepJ(i2) : i2 \in
        {StepI2(i1) : i1 \in {StepI1(h2) : h2 \in {StepH2(h1) : h1 \in {StepH1(g) : g \in
        {StepG(f4) : f4 \in {StepF4(f3) : f3 \in {StepF3(f2) : f2 \in {StepF2(f1) : f1 \in
        {StepF1(e2) : e2 \in {StepE2(e1) : e1 \in {StepE1(d) : d \in {StepD(c) : c \in
        {StepC(b) : b \in {StepB(a) : a \in {StepA(s)}}}}}}}}}}}}}}}}}}} : TRUE

CleanupAlphabet == {"\n", "-", "#", " ", "a"}

\* texts with the characters the bounded texts leave out
Fixtures == {
    <<"\\", "-", "-", "\n", "a">>,
    <<"a", "\n", "\n", "\\", "-", "-", "\n", "\n", "a">>,
    <<"·", "\n", "a">>,
    <<"-", "-", "\n", "7", "\n", "a">>,
    <<"7", " ", "c", "l", "a", "p", "s">>,
    <<Backquote, "[", "a", "]", "(", "b", ")", Backquote>>,
    <<"!", "[", "x", "]", "(", "i", "m", "a", "g", "e", "s", "/", "a", ")">>,
    <<Backquote, Backquote, Backquote, "\n", " ", Backquote, Backquote, Backquote>> }

CleanupInit ==
    /\ body \in SeqsUpTo(CleanupAlphabet, MaxLen) \cup Fixtures
    /\ markdown = body
    /\ first_pass = <<>>
    /\ passes = 0

\* the cleanup as convert_to_markdown applies it to the rendered text
CleanupRendered ==
    /\ passes = 0
    /\ markdown' = Cleanup(markdown)
    /\ first_pass' = markdown'
    /\ passes' = 1
    /\ UNCHANGED body
    /\ UNCHANGED <<mainVars, extractVars, tagVars>>

\* the same sequence applied to text that it has cleaned already
CleanupAgain ==
    /\ passes = 1
    /\ markdown' = Cleanup(markdown)
    /\ passes' = 2
    /\ UNCHANGED <<body, first_pass>>
    /\ UNCHANGED <<mainVars, extractVars, tagVars>>

MainNext ==
    \/ MainConfigError \/ MainConstruct
    \/ FetchPrimary \/ FetchRedirect
    \/ ExtractNoRoot \/ ExtractContent
    \/ ImageWithoutSrc \/ ImageDiscard \/ ImageDownload \/ ImagesReturn
    \/ ConvertToMarkdown \/ WriteOutput \/ Publish

(***************************************************************************)
(* extract_content: node selection (lines 76-146).                         *)
(*                                                                         *)
(* The elements below the content root are numbered 1..Len(tree) in        *)
(* document order.  Each has a tag, a class attribute and one string of    *)
(* its own, in front of its child elements ("" for none).  parent[n] is 0  *)
(* for the content root and Len(tree)+1 for content_div.  The children of  *)
(* an element stay in document order, because append only ever moves an    *)
(* element to the end of content_div, in document order.                   *)
(***************************************************************************)
Headings == {"h1", "h2", "h3", "h4", "h5", "h6"}
\* line 107
ContentTags == Headings \cup {"p", "pre", "figure", "img", "blockquote", "ul", "ol", "div"}

Tags == {"div", "p", "h1", "span"}
Classes == {"", "postMetaLockup"}
Strings == {"", "--", "7", "·", "Share", "In Plain English", "Hello"}

NodeKinds == {k \in [tag : Tags, cls : Classes, str : Strings] :
                 /\ k.cls # "" => (k.tag \in {"div", "p"} /\ k.str \in {"", "Hello"})
                 /\ k.tag = "div" => k.str = ""
                 /\ k.tag = "h1" => k.str \in {"Hello", "Share"}
                 /\ k.tag = "span" => k.str \in {"Hello", "Share"}}

ContentDiv(t) == Len(t) + 1

\* a is above m in the tree par
RECURSIVE IsAbove(_, _, _)
IsAbove(par, a, m) ==
    IF m < 1 \/ m > Len(par) THEN FALSE
    ELSE par[m] = a \/ IsAbove(par, a, par[m])

\* document order: each element is a child of the root, of the element before
\* it, or of an element above that one
IsDocumentOrder(par) ==
    \A n \in 1..Len(par) :
        /\ par[n] \in 0..(n - 1)
        /\ par[n] = 0 \/ par[n] = n - 1 \/ IsAbove(par, par[n], n - 1)

Subtree(par, n) == {m \in 1..Len(par) : m = n \/ IsAbove(par, n, m)}

\* the strings below one element, in document order
RECURSIVE StringsFrom(_, _, _, _)
StringsFrom(t, par, n, m) ==
    IF m > Len(t) THEN <<>>
    ELSE (IF m \in Subtree(par, n) /\ t[m].str # "" THEN <<t[m].str>> ELSE <<>>)
         \o StringsFrom(t, par, n, m + 1)

\* element.text.strip(), as the sequence of the strings it concatenates
Text(t, par, n) == StringsFrom(t, par, n, 1)

\* element.find(string=re.compile(...)): one string below the element matches
FindString(t, par, n, matching) == \E m \in Subtree(par, n) : t[m].str \in matching

Digits == {"7"}
\* re.compile(r'clap|follow|min read|sign up|bookmark|Listen|Share') (line 116)
InteractionStrings == {"Share"}
\* re.compile(r'In Plain English|Thank you for being a part of') (line 128)
FooterStrings == {"In Plain English"}
\* line 112
BylineClasses == {"postMetaLockup"}

\* line 82: the text of the first h1, or the placeholder
Title(t, par) ==
    IF \E n \in 1..Len(t) : t[n].tag = "h1"
    THEN Text(t, par, CHOOSE n \in 1..Len(t) :
                          t[n].tag = "h1" /\ \A m \in 1..(n - 1) : t[m].tag # "h1")
    ELSE <<"Untitled Article">>

\* line 112
IsByline(t, par, n) == t[n].tag \notin Headings /\ t[n].cls \in BylineClasses
\* line 116
HasInteractionText(t, par, n) ==
    t[n].tag \notin Headings /\ FindString(t, par, n, InteractionStrings)
\* line 120: re.match(r'^\s*--\s*$|^\s*\d+\s*$', element.text.strip())
IsSeparatorOrNumber(t, par, n) ==
    /\ t[n].tag = "p"
    /\ LET x == Text(t, par, n)
       IN x = <<"--">> \/ (x # <<>> /\ \A k \in 1..Len(x) : x[k] \in Digits)
\* line 124
IsTitleHeading(t, par, n, ttl) == t[n].tag = "h1" /\ Text(t, par, n) = ttl
\* line 128
HasFooterText(t, par, n) ==
    t[n].tag \notin Headings /\ FindString(t, par, n, FooterStrings)
\* line 132
IsMiddleDot(t, par, n) == t[n].tag = "p" /\ Text(t, par, n) = <<"·">>

\* the chain of lines 112-133
Excluded(t, par, n, ttl) ==
    \/ IsByline(t, par, n)
    \/ HasInteractionText(t, par, n)
    \/ IsSeparatorOrNumber(t, par, n)
    \/ IsTitleHeading(t, par, n, ttl)
    \/ HasFooterText(t, par, n)
    \/ IsMiddleDot(t, par, n)

\* line 107: article_tag.find_all([...]), in document order
RECURSIVE ContentElementsFrom(_, _)
ContentElementsFrom(t, n) ==
    IF n > Len(t) THEN <<>>
    ELSE (IF t[n].tag \in ContentTags THEN <<n>> ELSE <<>>) \o ContentElementsFrom(t, n + 1)
ContentElements(t) == ContentElementsFrom(t, 1)

\* the number of words of one string
Words(str) == IF str = "In Plain English" THEN 3 ELSE 1

\* len(element.get_text().split()): get_text joins the strings with nothing
\* between them, so the last word of one runs into the first of the next
RECURSIVE WordsOf(_)
WordsOf(x) ==
    IF x = <<>> THEN 0
    ELSE IF Len(x) = 1 THEN Words(x[1])
    ELSE Words(x[1]) - 1 + WordsOf(Tail(x))

\* lines 138-139 over content_div.contents
RECURSIVE WordCountFrom(_, _, _)
WordCountFrom(t, par, n) ==
    IF n > Len(t) THEN 0
    ELSE (IF par[n] = ContentDiv(t) THEN WordsOf(Text(t, par, n)) ELSE 0)
         + WordCountFrom(t, par, n + 1)

Shapes(n) == {par \in [1..n -> 0..n] : IsDocumentOrder(par)}

ExtractInit ==
    /\ tree \in SeqsUpTo(NodeKinds, MaxNodes)
    /\ parent \in Shapes(Len(tree))
    /\ title = Title(tree, parent)
    /\ ei = 1
    /\ skipped = {}
    /\ word_count = 0

InSelectionLoop == ei <= Len(ContentElements(tree))
Element == ContentElements(tree)[ei]

\* one turn of the loop of lines 110-135 that ends in a continue
ExtractSkip ==
    /\ InSelectionLoop
    /\ Excluded(tree, parent, Element, title)
    /\ skipped' = skipped \cup {Element}
    /\ ei' = ei + 1
    /\ UNCHANGED <<tree, title, parent, word_count>>
    /\ UNCHANGED <<mainVars, cleanupVars, tagVars>>

\* one turn that reaches line 135: content_div.append(element) takes the
\* element, with what is below it, out of its parent
ExtractAppend ==
    /\ InSelectionLoop
    /\ ~Excluded(tree, parent, Element, title)
    /\ parent' = [parent EXCEPT ![Element] = ContentDiv(tree)]
    /\ ei' = ei + 1
    /\ UNCHANGED <<tree, title, skipped, word_count>>
    /\ UNCHANGED <<mainVars, cleanupVars, tagVars>>

\* lines 137-146
ExtractReturn ==
    /\ ei = Len(ContentElements(tree)) + 1
    /\ word_count' = WordCountFrom(tree, parent, 1)
    /\ ei' = ei + 1
    /\ UNCHANGED <<tree, title, parent, skipped>>
    /\ UNCHANGED <<mainVars, cleanupVars, tagVars>>

ExtractReturned == ei = Len(ContentElements(tree)) + 2

MainIdle ==
    /\ pc = "idle" /\ args = [publish |-> FALSE] /\ dirs = {} /\ files = {}
    /\ calls = <<>> /\ html = NoPage /\ images = <<>> /\ idx = 0
    /\ downloaded_count = 0 /\ md_refs = <<>> /\ exit_status = -1
    /\ publish_result = "none"

ExtractIdle ==
    tree = <<>> /\ title = <<>> /\ parent = <<>> /\ ei = 0 /\ skipped = {} /\ word_count = 0
CleanupIdle == markdown = <<>> /\ first_pass = <<>> /\ passes = 0 /\ body = <<>>
TagsIdle == url_path = <<>> /\ tags = <<>>

Init == MainInit /\ ExtractIdle /\ CleanupIdle /\ TagsIdle
Next == MainNext
Spec == Init /\ [][Next]_vars

InitExtract == MainIdle /\ ExtractInit /\ CleanupIdle /\ TagsIdle
NextExtract == ExtractSkip \/ ExtractAppend \/ ExtractReturn
SpecExtract == InitExtract /\ [][NextExtract]_vars

InitCleanup == MainIdle /\ ExtractIdle /\ CleanupInit /\ TagsIdle
NextCleanup == CleanupRendered \/ CleanupAgain
SpecCleanup == InitCleanup /\ [][NextCleanup]_vars

InitTags == MainIdle /\ ExtractIdle /\ CleanupIdle /\ TagsInit
NextTags == GenerateFrontmatter
SpecTags == InitTags /\ [][NextTags]_vars

(***************************************************************************)
(* Properties of the run of main()                                         *)
(***************************************************************************)
CallsOf(kind) == {k \in 1..Len(calls) : calls[k].kind = kind}
CallsForImage(n) == {k \in CallsOf("image") : calls[k].target = n}
DocumentCalls == CallsOf("document") \cup CallsOf("redirect")

Is2xx(o) == ~o.err /\ 200 <= o.status /\ o.status < 300
TransportOrNon2xx(o) == ~Is2xx(o)
TransportOr4xx5xx(o) == o.err \/ (400 <= o.status /\ o.status < 600)

AfterDownloadImages == pc \in {"render", "write", "publish"} \/ md_refs # <<>>
    \/ (pc = "exited" /\ Resolve(OutputPath(args)) \in files)
Rendered == pc \in {"write", "publish"}
    \/ (pc = "exited" /\ Resolve(OutputPath(args)) \in files)

\* the size markers the specification counts as small-icon/avatar markers
SmallIconMarkers == {"resize:fill:64:64", "resize:fill:88:88", "resize:fit:64:64"}
CarriesSmallIconMarker(src) ==
    src # NoSrc /\ \E t \in SmallIconMarkers : Contains(ResolveSrc(src), t)

\* C1: every image whose resolved address carries a small-icon size marker
\* (the address .../resize:fit:64:64/abc.png included) is removed from the
\* content without being downloaded, and the rendered markdown holds no
\* image reference for it.
C1_SmallIconsDiscarded ==
    \A n \in 1..Len(images) :
        (CarriesSmallIconMarker(images[n].orig) /\ idx >= n) =>
            /\ ~images[n].present
            /\ CallsForImage(n) = {}
            /\ Rendered => \A r \in 1..Len(md_refs) : md_refs[r].node # n

\* the part of C1 the code keeps: the two resize:fill markers it tests for
C1_FillMarkersDiscarded ==
    \A n \in 1..Len(images) :
        (images[n].orig # NoSrc /\ IsProfileImage(ResolveSrc(images[n].orig)) /\ idx >= n) =>
            /\ ~images[n].present
            /\ CallsForImage(n) = {}
            /\ Rendered => \A r \in 1..Len(md_refs) : md_refs[r].node # n

DownloadSucceeded(n) == \E k \in CallsForImage(n) : Is2xx(calls[k].outcome)

\* the file a reference in the markdown file designates: relative references
\* are relative to the directory of the markdown file
RefTarget(ref) == Resolve(PathJoin(OutputDir(args), ref))

IsUnder(p, dir) == Len(p) > Len(dir) /\ SubSeq(p, 1, Len(dir)) = dir

\* C3: for every image whose download succeeded, whatever the output
\* directory and the image directory, the reference written into the content
\* designates the file written under the configured image directory.
C3_ReferenceDesignatesWrittenFile ==
    \A n \in 1..Len(images) :
        DownloadSucceeded(n) =>
            /\ RefTarget(images[n].src) \in files
            /\ IsUnder(RefTarget(images[n].src), Resolve(ImageDir(args)))

Downloadable(n) ==
    /\ images[n].orig # NoSrc
    /\ ~IsProfileImage(ResolveSrc(images[n].orig))

\* C4: a failed image download leaves the node in the content with its
\* source unchanged, is not counted, does not end the run, and every later
\* image is still processed: one attempt for each image, never a second one.
C4_DownloadFailureIsLocal ==
    /\ \A n \in 1..Len(images) :
         /\ Cardinality(CallsForImage(n)) <= 1
         /\ (\E k \in CallsForImage(n) : TransportOr4xx5xx(calls[k].outcome)) =>
               /\ images[n].present
               /\ images[n].src = images[n].orig
         /\ (Downloadable(n) /\ idx >= n) => Cardinality(CallsForImage(n)) = 1
    /\ downloaded_count =
         Cardinality({k \in CallsOf("image") : ~TransportOr4xx5xx(calls[k].outcome)})
    /\ ((\E k \in CallsOf("image") : TransportOr4xx5xx(calls[k].outcome)) /\ pc = "exited") =>
          /\ idx = Len(images)
          /\ \/ exit_status = 0 /\ Resolve(OutputPath(args)) \in files
             \/ exit_status = 1 /\ Resolve(OutputDir(args)) \notin dirs
    /\ pc \in {"render", "write", "publish"} => idx = Len(images)

C4_Witness ==
    /\ pc = "render"
    /\ \E n \in 1..Len(images), m \in 1..Len(images) :
         /\ n < m
         /\ \E k \in CallsForImage(n) : TransportOr4xx5xx(calls[k].outcome)
         /\ \E k \in CallsForImage(m) : Is2xx(calls[k].outcome)

NoCredential(a) == a.api_key = "None" /\ a.env_key = "None"

\* C5: with publishing requested and no credential from the command line or
\* the environment, the run exits with status 1 without any HTTP call and
\* without writing a file.
C5_ConfigErrorBeforeAnyActivity ==
    (args.publish /\ NoCredential(args)) =>
        /\ pc \in {"main", "exited"}
        /\ pc = "exited" => exit_status = 1
        /\ pc = "main" => (ENABLED MainConfigError /\ ~ENABLED MainConstruct)
        /\ calls = <<>>
        /\ files = {}

C5_Witness == pc = "exited" /\ args.publish /\ NoCredential(args)

ContentRootMissing ==
    /\ pc \in {"extract", "exited"}
    /\ calls # <<>>
    /\ Len(calls) \in DocumentCalls
    /\ ~RaisesRequestException(calls[Len(calls)].outcome)
    /\ ~html.root

FatalFetch(Failed(_)) ==
    /\ Cardinality(CallsOf("document")) <= 1
    /\ Cardinality(CallsOf("redirect")) <= 1
    /\ \A k \in DocumentCalls :
         Failed(calls[k].outcome) =>
            /\ k = Len(calls)
            /\ pc = "exited" /\ exit_status = 1
            /\ files = {}
    /\ ContentRootMissing =>
            /\ files = {}
            /\ pc = "extract" => (ENABLED ExtractNoRoot /\ ~ENABLED ExtractContent)
            /\ pc = "exited" => exit_status = 1
    /\ pc = "exited" => ~ENABLED Next

C6_WitnessNoRoot == pc = "exited" /\ ContentRootMissing

\* C7: the publish call is issued once at most and only with the markdown
\* file written; a failed publish leaves the file in place and the run ends
\* with the exit status of a successful conversion.
C7_PublishAfterWriteOnceNonFatal ==
    /\ Cardinality(CallsOf("publish")) <= 1
    /\ \A k \in CallsOf("publish") :
         /\ Resolve(OutputPath(args)) \in files
         /\ k = Len(calls)
         /\ pc = "exited"
         /\ TransportOrNon2xx(calls[k].outcome) => exit_status = 0
    /\ (pc = "exited" /\ ~args.publish /\ Resolve(OutputPath(args)) \in files)
          => exit_status = 0
    /\ publish_result = "failed" =>
          (Resolve(OutputPath(args)) \in files /\ exit_status = 0)

C7_Witness ==
    /\ pc = "exited"
    /\ \E k \in CallsOf("publish") : TransportOrNon2xx(calls[k].outcome)
    /\ publish_result = "failed"

(***************************************************************************)
(* Properties of extract_content                                           *)
(***************************************************************************)
InContent(n) == IsAbove(parent, ContentDiv(tree), n)

\* C2: once extract_content has returned, no node of the content sequence
\* matches any of the six exclusion heuristics on the returned tree, and no
\* node a heuristic discarded is in the returned content, nested or not.
C2_ContentHoldsNoExcludedNode ==
    ExtractReturned =>
        /\ \A n \in 1..Len(tree) :
             parent[n] = ContentDiv(tree) => ~Excluded(tree, parent, n, title)
        /\ \A n \in skipped : ~InContent(n)

\* the first half of C2 alone
C2_TopLevelNotExcluded ==
    ExtractReturned =>
        \A n \in 1..Len(tree) :
            parent[n] = ContentDiv(tree) => ~Excluded(tree, parent, n, title)

(***************************************************************************)
(* Properties of generate_frontmatter                                      *)
(***************************************************************************)
IsDerivedTag(w) ==
    /\ w # <<>>
    /\ \A k \in 1..Len(w) : w[k] \in AlnumTokens
    /\ w \notin ExcludedTags

\* C10: the tag list is the three default tags in their order, or one
\* derived tag in front of them; a derived tag appears only for a path of
\* more than one segment and is non-empty, alphanumeric and none of medium,
\* blog, posts.
C10_TagListShape ==
    tags # <<>> =>
        \/ tags = DefaultTags
        \/ /\ tags = <<tags[1]>> \o DefaultTags
           /\ Len(PathComponents(url_path)) > 1
           /\ IsDerivedTag(tags[1])

\* what holds of the code: the same without the exclusion of the three words
C10_TagListShapeWithoutExclusion ==
    tags # <<>> =>
        \/ tags = DefaultTags
        \/ /\ tags = <<tags[1]>> \o DefaultTags
           /\ Len(PathComponents(url_path)) > 1
           /\ tags[1] # <<>>
           /\ \A k \in 1..Len(tags[1]) : tags[1][k] \in AlnumTokens

(***************************************************************************)
(* Properties of the textual cleanup                                       *)
(***************************************************************************)
\* C8: the cleanup sequence is idempotent: applied to text it has cleaned,
\* it gives that text again.
C8_CleanupIdempotent == passes = 2 => markdown = first_pass

HasBlankRun(s) == \E k \in 1..Len(s) : SkipChar(s, k, "\n") - k >= 3

\* C9: where the rendered body had three or more newlines in a row, the
\* cleaned text has two at most: steps k and l bring no such run back.
C9_NoBlankRunSurvives ==
    (passes >= 1 /\ HasBlankRun(body)) => ~HasBlankRun(first_pass)

\* step j by itself does leave no run of three newlines
StepJCollapsesBlankRuns == ~HasBlankRun(StepJ(body))

\* the text step c receives: the rendered body after steps a and b
BeforeStepC(s) == StepB(StepA(s))

\* a heading marker: a whole run of 1 to 6 hash characters with a space behind
IsHeadingMarker(s, i) ==
    /\ s[i] = "#"
    /\ (i = 1 \/ s[i - 1] # "#")
    /\ LET h == SkipChar(s, i, "#")
       IN h - i <= 6 /\ h <= Len(s) /\ s[h] = " "

BeginsLine(s, i) == i = 1 \/ s[i - 1] = "\n"
FollowsNewline(s, i) == i > 1 /\ s[i - 1] = "\n"

\* C11: step c inserts a newline only before a heading marker that does not
\* begin a line: a text whose heading markers (levels 1 to 6) all begin a
\* line passes step c unchanged, no hash run split and no level changed.
C11_LineStartHeadingsUnchanged ==
    passes >= 1 =>
        LET t == BeforeStepC(body)
        IN (\A i \in 1..Len(t) : IsHeadingMarker(t, i) => BeginsLine(t, i))
               => StepC(t) = t

\* the same for the texts whose heading markers all follow a newline
HeadingsAfterNewlineUnchanged ==
    passes >= 1 =>
        LET t == BeforeStepC(body)
        IN (\A i \in 1..Len(t) : IsHeadingMarker(t, i) => FollowsNewline(t, i))
               => StepC(t) = t

\* a level-1 marker that follows a newline is what step c leaves alone
LevelOneAfterNewlineUnchanged ==
    passes >= 1 =>
        LET t == BeforeStepC(body)
        IN (\A i \in 1..Len(t) : t[i] = "#" =>
                /\ FollowsNewline(t, i)
                /\ i < Len(t) /\ t[i + 1] = " ")
               => StepC(t) = t

====
